---- MODULE Spec2Model ----
(***************************************************************************)
(* Model of the event loop of Rust-Traverse (src/ui/run_app.rs) together   *)
(* with the projection it draws every iteration (src/ui/render.rs).        *)
(*                                                                         *)
(* Strings are sequences of one-character strings, paths are sequences of  *)
(* names, Option<usize> is <<>> (None) or <<i>> (Some(i)).                 *)
(***************************************************************************)
EXTENDS Integers, Sequences, FiniteSets, TLC

\* ------------------------------------------------------------------ bounds
\* longest text typed into / held by the prompt buffer
MaxLen == 2
\* number of entries the user may successfully create during a run
MaxCreate == 1

\* ------------------------------------------------------------ Option<usize>
None == <<>>
Some(i) == <<i>>
IsSome(o) == o # None
Unwrap(o) == o[1]

\* --------------------------------------------------------------- key events
\* characters delivered as KeyCode::Char(c) without modifiers
Chars == {"1", "2", "j", "k", "q", "f"}

Key(code, ch, ctrl) == [code |-> code, ch |-> ch, ctrl |-> ctrl]

Keys ==
    {Key("Char", c, FALSE) : c \in Chars}
      \cup {Key("Char", "f", TRUE), Key("Char", "n", TRUE)}
      \cup {Key(code, "", FALSE) :
              code \in {"Down", "Up", "Esc", "Enter", "Backspace", "Tab"}}

NoKey == Key("None", "", FALSE)

\* The arm of `match key.code` that a key event selects; arms are tried in
\* source order and the first matching one is taken.
MatchArm(key) ==
    CASE key.code = "Char" /\ key.ch = "1" -> "focus_files"
      [] key.code = "Char" /\ key.ch = "2" -> "focus_dirs"
      [] (key.code = "Char" /\ key.ch = "j") \/ key.code = "Down" -> "next"
      [] (key.code = "Char" /\ key.ch = "k") \/ key.code = "Up" -> "previous"
      [] key.code = "Char" /\ key.ch = "f" /\ key.ctrl -> "ctrl_f"
      [] key.code = "Char" /\ key.ch = "n" /\ key.ctrl -> "ctrl_n"
      [] (key.code = "Char" /\ key.ch = "q") \/ key.code = "Esc" -> "quit"
      [] key.code = "Char" -> "char"
      [] key.code = "Enter" -> "enter"
      [] key.code = "Backspace" -> "backspace"
      [] key.code = "None" -> "none"
      [] OTHER -> "other"

\* --------------------------------------------------------------- filesystem
\* A filesystem entry is <<parent path, name>>; the entries of a directory
\* are enumerated in the order they were created.
UpEntry == <<".", ".", "/">>
Root == <<>>

InitDirs ==
    << <<Root, <<"a">>>>,
       <<Root, <<"p">>>>,
       << <<<<"a">>>>, <<"b">> >> >>

InitFiles ==
    << << <<<<"a">>>>, <<"f">> >>,
       << <<<<"a">>>>, <<"h">> >>,
       << <<<<"a">>>>, <<"u">> >>,
       << <<<<"a">>, <<"b">>>>, <<"g">> >> >>

\* directories the process may not enter (set_current_dir fails)
Locked == { <<<<"p">>>> }
\* files that cannot be opened for reading (File::open fails)
Unreadable == { <<<<"a">>, <<"u">>>> }

\* the directories the program can be started in
StartDirs == { Root, <<<<"a">>>>, <<<<"a">>, <<"b">>>> }

Names(entries, p) ==
    LET own == SelectSeq(entries, LAMBDA e : e[1] = p)
    IN  [i \in 1..Len(own) |-> own[i][2]]

Exists(entries, p, name) ==
    \E i \in 1..Len(entries) : entries[i] = <<p, name>>

Parent(p) == IF p = Root THEN Root ELSE SubSeq(p, 1, Len(p) - 1)

VARIABLES
    pc,             \* position in the loop of run_app
    cwd,            \* the process's current directory (std::env)
    fs_files,       \* the files of the filesystem
    fs_dirs,        \* the directories of the filesystem
    cur_dir,        \* app.cur_dir
    files_items,    \* app.files.items
    files_state,    \* app.files.state.selected()
    dirs_items,     \* app.dirs.items
    dirs_state,     \* app.dirs.state.selected()
    show_popup,     \* app.show_popup
    show_nav,       \* app.show_nav
    show_fzf,       \* app.show_fzf
    show_bookmark,  \* app.show_bookmark
    input,          \* the prompt buffer
    input_active,   \* the prompt captures typed characters
    purpose,        \* history: the key that opened the prompt
    typing,         \* history: how the buffer relates to the typed text
    request,        \* history: the creation requested by the key event
    last            \* history: the key event dispatched

vars == <<pc, cwd, fs_files, fs_dirs, cur_dir, files_items, files_state,
          dirs_items, dirs_state, show_popup, show_nav, show_fzf,
          show_bookmark, input, input_active, purpose, typing, request,
          last>>

fsVars == <<fs_files, fs_dirs>>
listVars == <<cur_dir, files_items, files_state, dirs_items, dirs_state>>
overlayVars == <<show_popup, show_nav, show_fzf, show_bookmark>>

\* The history variables describe the key event dispatched in the current
\* iteration of the loop and are reset when the next iteration draws.
\*   typing   "none"    the prompt is closed
\*            "exact"   only characters were pressed since the prompt opened
\*                      and the buffer is exactly those characters, in order
\*            "off"     only characters were pressed since the prompt opened
\*                      and at some point the buffer was not those characters
\*                      (characters are only ever added at the end, so it
\*                      cannot become those characters again)
\*            "edited"  Backspace was pressed since the prompt opened
\*   last     the key event, NoKey when there was none
\*   request  which creation was asked of the filesystem, where, under which
\*            name, and what the prompt was opened for and fed with
NoRequest ==
    [kind |-> "none", dir |-> Root, name |-> <<>>, opened |-> "none",
     typing |-> "none"]

\* ------------------------------------------------------------- collaborators
get_pwd(dir) == dir

update_files(files, dir) == Names(files, dir)

update_dirs(dirs, dir) ==
    (IF dir = Root THEN <<>> ELSE <<UpEntry>>) \o Names(dirs, dir)

\* create_file / create_dir: nothing is created for an empty or taken name
CanCreate(name, dir, files, dirs) ==
    /\ name # <<>>
    /\ ~Exists(files, dir, name)
    /\ ~Exists(dirs, dir, name)

create_file(name, dir, files, dirs) ==
    IF CanCreate(name, dir, files, dirs) THEN Append(files, <<dir, name>>)
    ELSE files

create_dir(name, dir, files, dirs) ==
    IF CanCreate(name, dir, files, dirs) THEN Append(dirs, <<dir, name>>)
    ELSE dirs

\* StatefulList::next / previous
next(items, state) ==
    IF Len(items) = 0 \/ state = None THEN state
    ELSE Some((Unwrap(state) + 1) % Len(items))

previous(items, state) ==
    IF Len(items) = 0 \/ state = None THEN state
    ELSE IF Unwrap(state) = 0 THEN Some(Len(items) - 1)
    ELSE Some(Unwrap(state) - 1)

Created == (Len(fs_files) - Len(InitFiles)) + (Len(fs_dirs) - Len(InitDirs))

\* the overlay indicators of a new App: no overlay is open
AppNewOverlay ==
    [show_popup |-> FALSE, show_nav |-> FALSE,
     show_fzf |-> FALSE, show_bookmark |-> FALSE]

\* ---------------------------------------------------------------- Init
Init ==
    /\ pc = "draw"
    /\ cwd \in StartDirs
    /\ fs_files = InitFiles
    /\ fs_dirs = InitDirs
    /\ cur_dir = get_pwd(cwd)
    /\ files_items = update_files(fs_files, cwd)
    /\ files_state = None
    /\ dirs_items = update_dirs(fs_dirs, cwd)
    /\ dirs_state = None
    /\ show_popup = AppNewOverlay.show_popup
    /\ show_nav = AppNewOverlay.show_nav
    /\ show_fzf = AppNewOverlay.show_fzf
    /\ show_bookmark = AppNewOverlay.show_bookmark
    /\ input = <<>>
    /\ input_active = FALSE
    /\ purpose = "none"
    /\ typing = "none"
    /\ request = NoRequest
    /\ last = NoKey

\* ------------------------------------------------------------ set_current_dir
IsDir(dirs, p) == p = Root \/ Exists(dirs, Parent(p), p[Len(p)])

CanEnter(dirs, p) == IsDir(dirs, p) /\ p \notin Locked

\* Target with the parent entry resolved to the top of the tree
TargetUpIsRoot(dir, entry) ==
    IF entry = UpEntry THEN Root ELSE Append(dir, entry)

\* the directory a selected entry of the directories list resolves to
Target(dir, entry) ==
    IF entry = UpEntry THEN Parent(dir) ELSE Append(dir, entry)

\* ClampFiles with an out-of-range selection always cleared
ClampFilesClears(state, items) ==
    IF IsSome(state) /\ Unwrap(state) >= Len(items) THEN None ELSE state

\* files.state after a directory change (run_app.rs 109-119)
ClampFiles(state, items) ==
    IF IsSome(state) /\ Unwrap(state) >= Len(items)
    THEN IF Len(items) # 0 THEN Some(Len(items) - 1) ELSE None
    ELSE state

\* ------------------------------------------------------------------ render
\* the name the preview and details panes take as the selected file
SelectedFile ==
    IF IsSome(files_state) /\ Unwrap(files_state) < Len(files_items)
    THEN files_items[Unwrap(files_state) + 1]
    ELSE <<>>

\* render_contents opens the selected file and unwraps the result;
\* render_details indexes dirs.items with the selected index
RenderPanics ==
    \/ SelectedFile # <<>> /\ Append(cwd, SelectedFile) \in Unreadable
    \/ IsSome(dirs_state) /\ Unwrap(dirs_state) >= Len(dirs_items)

\* Render clearing the cursor of an empty list, as later versions of the
\* list widget do
RenderResetsSelection ==
    /\ pc = "draw"
    /\ IF RenderPanics
       THEN /\ pc' = "panicked"
            /\ UNCHANGED cur_dir
       ELSE /\ pc' = "poll"
            /\ cur_dir' = get_pwd(cwd)
    /\ files_state' = IF Len(files_items) = 0 THEN None ELSE files_state
    /\ dirs_state' = IF Len(dirs_items) = 0 THEN None ELSE dirs_state
    /\ request' = NoRequest
    /\ last' = NoKey
    /\ UNCHANGED <<cwd, fsVars, files_items, dirs_items, overlayVars, input,
                   input_active, purpose, typing>>

Render ==
    /\ pc = "draw"
    /\ IF RenderPanics
       THEN /\ pc' = "panicked"
            /\ UNCHANGED cur_dir
       ELSE /\ pc' = "poll"
            /\ cur_dir' = get_pwd(cwd)
    /\ request' = NoRequest
    /\ last' = NoKey
    /\ UNCHANGED <<cwd, fsVars, files_items, files_state, dirs_items,
                   dirs_state, overlayVars, input, input_active, purpose,
                   typing>>

\* ------------------------------------------------------- the event dispatch
\* poll() timed out, or the event was not a key press
Tick ==
    /\ pc = "poll"
    /\ pc' = "draw"
    /\ UNCHANGED <<cwd, fsVars, listVars, overlayVars, input, input_active,
                   purpose, typing, request, last>>

\* a character key pressed while the prompt is open counts as typed text
IsText(key) == key.code = "Char" /\ ~key.ctrl

Pressed(key, arm) ==
    /\ pc = "poll"
    /\ MatchArm(key) = arm
    /\ last' = key

\* typing after a key that leaves the prompt open and the buffer as `buffer`
TypingAfter(key, buffer) ==
    IF input_active /\ IsText(key) /\ typing # "edited"
    THEN IF typing = "exact" /\ buffer = Append(input, key.ch)
         THEN "exact" ELSE "off"
    ELSE typing

\* FocusFiles without the line that clears the other list's selection
FocusFilesKeepsDirs(key) ==
    /\ Pressed(key, "focus_files")
    /\ files_state' = Some(0)
    /\ typing' = TypingAfter(key, input)
    /\ request' = NoRequest
    /\ pc' = "draw"
    /\ UNCHANGED <<cwd, fsVars, cur_dir, files_items, dirs_items, dirs_state,
                   overlayVars, input, input_active, purpose>>

\* KeyCode::Char('1')
FocusFiles(key) ==
    /\ Pressed(key, "focus_files")
    /\ files_state' = Some(0)
    /\ dirs_state' = None
    /\ typing' = TypingAfter(key, input)
    /\ request' = NoRequest
    /\ pc' = "draw"
    /\ UNCHANGED <<cwd, fsVars, cur_dir, files_items, dirs_items, overlayVars,
                   input, input_active, purpose>>

\* KeyCode::Char('2')
FocusDirs(key) ==
    /\ Pressed(key, "focus_dirs")
    /\ dirs_state' = Some(0)
    /\ files_state' = None
    /\ typing' = TypingAfter(key, input)
    /\ request' = NoRequest
    /\ pc' = "draw"
    /\ UNCHANGED <<cwd, fsVars, cur_dir, files_items, dirs_items, overlayVars,
                   input, input_active, purpose>>

\* NextKey putting a cursor on the list that is not focused
NextKeyWrongList(key) ==
    /\ Pressed(key, "next")
    /\ IF IsSome(files_state)
       THEN /\ dirs_state' = Some(0)
            /\ UNCHANGED files_state
       ELSE IF IsSome(dirs_state)
       THEN /\ files_state' = Some(0)
            /\ UNCHANGED dirs_state
       ELSE UNCHANGED <<files_state, dirs_state>>
    /\ typing' = TypingAfter(key, input)
    /\ request' = NoRequest
    /\ pc' = "draw"
    /\ UNCHANGED <<cwd, fsVars, cur_dir, files_items, dirs_items, overlayVars,
                   input, input_active, purpose>>

\* KeyCode::Char('j') | KeyCode::Down
NextKey(key) ==
    /\ Pressed(key, "next")
    /\ IF IsSome(files_state)
       THEN /\ files_state' = next(files_items, files_state)
            /\ UNCHANGED dirs_state
       ELSE IF IsSome(dirs_state)
       THEN /\ dirs_state' = next(dirs_items, dirs_state)
            /\ UNCHANGED files_state
       ELSE UNCHANGED <<files_state, dirs_state>>
    /\ typing' = TypingAfter(key, input)
    /\ request' = NoRequest
    /\ pc' = "draw"
    /\ UNCHANGED <<cwd, fsVars, cur_dir, files_items, dirs_items, overlayVars,
                   input, input_active, purpose>>

\* PreviousKey stepping forward, as NextKey does
PreviousKeyStepsForward(key) ==
    /\ Pressed(key, "previous")
    /\ IF IsSome(files_state)
       THEN /\ files_state' = next(files_items, files_state)
            /\ UNCHANGED dirs_state
       ELSE IF IsSome(dirs_state)
       THEN /\ dirs_state' = next(dirs_items, dirs_state)
            /\ UNCHANGED files_state
       ELSE UNCHANGED <<files_state, dirs_state>>
    /\ typing' = TypingAfter(key, input)
    /\ request' = NoRequest
    /\ pc' = "draw"
    /\ UNCHANGED <<cwd, fsVars, cur_dir, files_items, dirs_items, overlayVars,
                   input, input_active, purpose>>

\* KeyCode::Char('k') | KeyCode::Up
PreviousKey(key) ==
    /\ Pressed(key, "previous")
    /\ IF IsSome(files_state)
       THEN /\ files_state' = previous(files_items, files_state)
            /\ UNCHANGED dirs_state
       ELSE IF IsSome(dirs_state)
       THEN /\ dirs_state' = previous(dirs_items, dirs_state)
            /\ UNCHANGED files_state
       ELSE UNCHANGED <<files_state, dirs_state>>
    /\ typing' = TypingAfter(key, input)
    /\ request' = NoRequest
    /\ pc' = "draw"
    /\ UNCHANGED <<cwd, fsVars, cur_dir, files_items, dirs_items, overlayVars,
                   input, input_active, purpose>>

\* CtrlF confirming without taking the prompt off the screen
CtrlFKeepsPopup(key) ==
    /\ Pressed(key, "ctrl_f")
    /\ IF input_active
       THEN /\ CanCreate(input, cwd, fs_files, fs_dirs) => Created < MaxCreate
            /\ fs_files' = create_file(input, cwd, fs_files, fs_dirs)
            /\ files_items' = update_files(fs_files', cwd)
            /\ input' = <<>>
            /\ UNCHANGED show_popup
            /\ input_active' = FALSE
            /\ request' = [kind |-> "file", dir |-> cwd, name |-> input,
                           opened |-> purpose, typing |-> typing]
            /\ purpose' = "none"
            /\ typing' = "none"
       ELSE /\ show_popup' = TRUE
            /\ input_active' = TRUE
            /\ request' = NoRequest
            /\ purpose' = "file"
            /\ typing' = IF input = <<>> THEN "exact" ELSE "off"
            /\ UNCHANGED <<fs_files, files_items, input>>
    /\ pc' = "draw"
    /\ UNCHANGED <<cwd, fs_dirs, cur_dir, files_state, dirs_items, dirs_state,
                   show_nav, show_fzf, show_bookmark>>

\* KeyCode::Char('f') with CONTROL: confirm as a file, or open the prompt
CtrlF(key) ==
    /\ Pressed(key, "ctrl_f")
    /\ IF input_active
       THEN /\ CanCreate(input, cwd, fs_files, fs_dirs) => Created < MaxCreate
            /\ fs_files' = create_file(input, cwd, fs_files, fs_dirs)
            /\ files_items' = update_files(fs_files', cwd)
            /\ input' = <<>>
            /\ show_popup' = FALSE
            /\ input_active' = FALSE
            /\ request' = [kind |-> "file", dir |-> cwd, name |-> input,
                           opened |-> purpose, typing |-> typing]
            /\ purpose' = "none"
            /\ typing' = "none"
       ELSE /\ show_popup' = TRUE
            /\ input_active' = TRUE
            /\ request' = NoRequest
            /\ purpose' = "file"
            /\ typing' = IF input = <<>> THEN "exact" ELSE "off"
            /\ UNCHANGED <<fs_files, files_items, input>>
    /\ pc' = "draw"
    /\ UNCHANGED <<cwd, fs_dirs, cur_dir, files_state, dirs_items, dirs_state,
                   show_nav, show_fzf, show_bookmark>>

\* CtrlN opening the navigator together with the prompt
CtrlNOpensNavigator(key) ==
    /\ Pressed(key, "ctrl_n")
    /\ IF input_active
       THEN /\ CanCreate(input, cwd, fs_files, fs_dirs) => Created < MaxCreate
            /\ fs_dirs' = create_dir(input, cwd, fs_files, fs_dirs)
            /\ dirs_items' = update_dirs(fs_dirs', cwd)
            /\ input' = <<>>
            /\ show_popup' = FALSE
            /\ input_active' = FALSE
            /\ request' = [kind |-> "dir", dir |-> cwd, name |-> input,
                           opened |-> purpose, typing |-> typing]
            /\ purpose' = "none"
            /\ typing' = "none"
            /\ UNCHANGED show_nav
       ELSE /\ show_popup' = TRUE
            /\ show_nav' = TRUE
            /\ input_active' = TRUE
            /\ request' = NoRequest
            /\ purpose' = "dir"
            /\ typing' = IF input = <<>> THEN "exact" ELSE "off"
            /\ UNCHANGED <<fs_dirs, dirs_items, input>>
    /\ pc' = "draw"
    /\ UNCHANGED <<cwd, fs_files, cur_dir, files_items, files_state,
                   dirs_state, show_fzf, show_bookmark>>

\* KeyCode::Char('n') with CONTROL: confirm as a directory, or open the prompt
CtrlN(key) ==
    /\ Pressed(key, "ctrl_n")
    /\ IF input_active
       THEN /\ CanCreate(input, cwd, fs_files, fs_dirs) => Created < MaxCreate
            /\ fs_dirs' = create_dir(input, cwd, fs_files, fs_dirs)
            /\ dirs_items' = update_dirs(fs_dirs', cwd)
            /\ input' = <<>>
            /\ show_popup' = FALSE
            /\ input_active' = FALSE
            /\ request' = [kind |-> "dir", dir |-> cwd, name |-> input,
                           opened |-> purpose, typing |-> typing]
            /\ purpose' = "none"
            /\ typing' = "none"
       ELSE /\ show_popup' = TRUE
            /\ input_active' = TRUE
            /\ request' = NoRequest
            /\ purpose' = "dir"
            /\ typing' = IF input = <<>> THEN "exact" ELSE "off"
            /\ UNCHANGED <<fs_dirs, dirs_items, input>>
    /\ pc' = "draw"
    /\ UNCHANGED <<cwd, fs_files, cur_dir, files_items, files_state,
                   dirs_state, show_nav, show_fzf, show_bookmark>>

\* Quit leaving the loop whether or not the prompt is open
QuitAlways(key) ==
    /\ Pressed(key, "quit")
    /\ pc' = "done"
    /\ purpose' = "none"
    /\ typing' = "none"
    /\ request' = NoRequest
    /\ UNCHANGED <<cwd, fsVars, listVars, overlayVars, input_active, input>>

\* KeyCode::Char('q') | KeyCode::Esc: close the prompt, or leave the loop
Quit(key) ==
    /\ Pressed(key, "quit")
    /\ IF input_active
       THEN /\ input_active' = FALSE
            /\ show_popup' = FALSE
            /\ pc' = "draw"
       ELSE /\ pc' = "done"
            /\ UNCHANGED <<input_active, show_popup>>
    /\ purpose' = "none"
    /\ typing' = "none"
    /\ request' = NoRequest
    /\ UNCHANGED <<cwd, fsVars, listVars, show_nav, show_fzf, show_bookmark,
                   input>>

\* KeyCode::Char(c): any other character
CharKey(key) ==
    /\ Pressed(key, "char")
    /\ IF input_active
       THEN /\ Len(input) < MaxLen
            /\ input' = Append(input, key.ch)
       ELSE UNCHANGED input
    /\ typing' = TypingAfter(key, input')
    /\ request' = NoRequest
    /\ pc' = "draw"
    /\ UNCHANGED <<cwd, fsVars, listVars, overlayVars, input_active, purpose>>

\* Enter with the two lists refreshed before the directory is changed
EnterListsOldDir(key) ==
    /\ Pressed(key, "enter")
    /\ request' = NoRequest
    /\ IF IsSome(dirs_state)
       THEN IF /\ Unwrap(dirs_state) < Len(dirs_items)
               /\ CanEnter(fs_dirs,
                           Target(cwd, dirs_items[Unwrap(dirs_state) + 1]))
            THEN /\ cwd' = Target(cwd, dirs_items[Unwrap(dirs_state) + 1])
                 /\ cur_dir' = get_pwd(cwd')
                 /\ files_items' = update_files(fs_files, cwd)
                 /\ dirs_items' = update_dirs(fs_dirs, cwd)
                 /\ files_state' = ClampFiles(files_state, files_items')
                 /\ dirs_state' = Some(0)
                 /\ pc' = "draw"
            ELSE /\ pc' = "panicked"
                 /\ UNCHANGED <<cwd, listVars>>
       ELSE /\ pc' = "draw"
            /\ UNCHANGED <<cwd, listVars>>
    /\ UNCHANGED <<fsVars, overlayVars, input, input_active, purpose, typing>>

\* KeyCode::Enter: change into the selected directory
Enter(key) ==
    /\ Pressed(key, "enter")
    /\ request' = NoRequest
    /\ IF IsSome(dirs_state)
       THEN IF /\ Unwrap(dirs_state) < Len(dirs_items)
               /\ CanEnter(fs_dirs,
                           Target(cwd, dirs_items[Unwrap(dirs_state) + 1]))
            THEN /\ cwd' = Target(cwd, dirs_items[Unwrap(dirs_state) + 1])
                 /\ cur_dir' = get_pwd(cwd')
                 /\ files_items' = update_files(fs_files, cwd')
                 /\ dirs_items' = update_dirs(fs_dirs, cwd')
                 /\ files_state' = ClampFiles(files_state, files_items')
                 /\ dirs_state' = Some(0)
                 /\ pc' = "draw"
            ELSE /\ pc' = "panicked"
                 /\ UNCHANGED <<cwd, listVars>>
       ELSE /\ pc' = "draw"
            /\ UNCHANGED <<cwd, listVars>>
    /\ UNCHANGED <<fsVars, overlayVars, input, input_active, purpose, typing>>

\* Backspace removing a character whether or not the prompt is open
BackspaceUnguarded(key) ==
    /\ Pressed(key, "backspace")
    /\ IF input # <<>>
       THEN input' = SubSeq(input, 1, Len(input) - 1)
       ELSE UNCHANGED input
    /\ typing' = IF input_active THEN "edited" ELSE typing
    /\ request' = NoRequest
    /\ pc' = "draw"
    /\ UNCHANGED <<cwd, fsVars, listVars, overlayVars, input_active, purpose>>

\* KeyCode::Backspace
Backspace(key) ==
    /\ Pressed(key, "backspace")
    /\ IF input_active /\ input # <<>>
       THEN input' = SubSeq(input, 1, Len(input) - 1)
       ELSE UNCHANGED input
    /\ typing' = IF input_active THEN "edited" ELSE typing
    /\ request' = NoRequest
    /\ pc' = "draw"
    /\ UNCHANGED <<cwd, fsVars, listVars, overlayVars, input_active, purpose>>

\* OtherKey reading the next key event without a render in between
OtherKeySkipsRender(key) ==
    /\ Pressed(key, "other")
    /\ request' = NoRequest
    /\ pc' = "poll"
    /\ UNCHANGED <<cwd, fsVars, listVars, overlayVars, input, input_active,
                   purpose, typing>>

\* any other key
OtherKey(key) ==
    /\ Pressed(key, "other")
    /\ request' = NoRequest
    /\ pc' = "draw"
    /\ UNCHANGED <<cwd, fsVars, listVars, overlayVars, input, input_active,
                   purpose, typing>>

Next ==
    \/ Render
    \/ Tick
    \/ \E key \in Keys : FocusFiles(key)
    \/ \E key \in Keys : FocusDirs(key)
    \/ \E key \in Keys : NextKey(key)
    \/ \E key \in Keys : PreviousKey(key)
    \/ \E key \in Keys : CtrlF(key)
    \/ \E key \in Keys : CtrlN(key)
    \/ \E key \in Keys : Quit(key)
    \/ \E key \in Keys : CharKey(key)
    \/ \E key \in Keys : Enter(key)
    \/ \E key \in Keys : Backspace(key)
    \/ \E key \in Keys : OtherKey(key)

Spec == Init /\ [][Next]_vars

\* The loop entered with any selection in the two lists: the handlers are
\* applied to every pair of cursors, also those no key sequence produces
\* from a start without selection.
Selections(items) == {None} \cup {Some(i) : i \in 0..(Len(items) - 1)}

InitFocused ==
    /\ pc = "draw"
    /\ cwd \in StartDirs
    /\ fs_files = InitFiles
    /\ fs_dirs = InitDirs
    /\ cur_dir = get_pwd(cwd)
    /\ files_items = update_files(fs_files, cwd)
    /\ files_state \in Selections(files_items)
    /\ dirs_items = update_dirs(fs_dirs, cwd)
    /\ dirs_state \in Selections(dirs_items)
    /\ show_popup = AppNewOverlay.show_popup
    /\ show_nav = AppNewOverlay.show_nav
    /\ show_fzf = AppNewOverlay.show_fzf
    /\ show_bookmark = AppNewOverlay.show_bookmark
    /\ input = <<>>
    /\ input_active = FALSE
    /\ purpose = "none"
    /\ typing = "none"
    /\ request = NoRequest
    /\ last = NoKey

SpecFocused == InitFocused /\ [][Next]_vars

\* the overlay state of the specification, read off the flags
TextInput == input_active /\ show_popup
OverlayNone ==
    ~input_active /\ ~show_popup /\ ~show_nav /\ ~show_fzf /\ ~show_bookmark

\* the step dispatches a key event handled by `arm`
Handled(arm) == pc = "poll" /\ MatchArm(last') = arm

TypeOK ==
    /\ pc \in {"draw", "poll", "done", "panicked"}
    /\ last \in Keys \cup {NoKey}
    /\ Len(input) <= MaxLen
    /\ typing = "none" <=> ~input_active
    /\ Created <= MaxCreate

\* ===================================================================== claims

CursorsUnchanged == files_state' = files_state /\ dirs_state' = dirs_state

\* C1: while the text-input overlay is active, a focus-files, focus-dirs,
\* next or previous key event leaves files.cursor and dirs.cursor unchanged.
C1_NavigationKeysInertUnderOverlay ==
    [][(TextInput /\ (\/ Handled("focus_files") \/ Handled("focus_dirs")
                      \/ Handled("next") \/ Handled("previous")))
          => CursorsUnchanged]_vars

\* C2: while the text-input overlay is active, Enter changes neither the
\* working directory, nor the two item lists, nor either cursor.
C2_DescendInertUnderOverlay ==
    [][(TextInput /\ Handled("enter"))
          => /\ cwd' = cwd
             /\ cur_dir' = cur_dir
             /\ files_items' = files_items
             /\ dirs_items' = dirs_items
             /\ CursorsUnchanged]_vars

\* C3: while the text-input overlay is active, every character key c,
\* including '1', '2', 'j', 'k' and 'q', appends exactly c to the buffer and
\* Backspace removes exactly the last character (nothing from an empty
\* buffer); none of them acts on the main panes.
C3_OverlayCapturesText ==
    [][(TextInput /\ pc = "poll")
          => /\ IsText(last')
                  => /\ input' = Append(input, last'.ch)
                     /\ input_active'
                     /\ CursorsUnchanged
             /\ last'.code = "Backspace"
                  => /\ input' = IF input = <<>> THEN <<>>
                                 ELSE SubSeq(input, 1, Len(input) - 1)
                     /\ CursorsUnchanged]_vars

CursorValid(items, state) ==
    /\ Len(items) = 0 => state = None
    /\ IsSome(state) => Unwrap(state) < Len(items)

\* C4: in every state, for the files list and the dirs list, an empty list
\* has cursor None and a cursor Some(i) has i < items.len().
C4_CursorsInRange ==
    /\ CursorValid(files_items, files_state)
    /\ CursorValid(dirs_items, dirs_state)

\* C5: focus is exclusive: files.cursor and dirs.cursor are never both set;
\* each focus key sets the cursor of its own list and clears the other, and
\* a descend leaves the dirs list, and only it, focused.
C5_FocusExclusive ==
    /\ ~(IsSome(files_state) /\ IsSome(dirs_state))
    /\ MatchArm(last) = "focus_files"
          => files_state = Some(0) /\ dirs_state = None
    /\ MatchArm(last) = "focus_dirs"
          => dirs_state = Some(0) /\ files_state = None
    /\ (MatchArm(last) = "enter" /\ IsSome(dirs_state) /\ pc = "draw")
          => dirs_state = Some(0) /\ files_state = None

\* a descend has been carried out from a focused directories list whose
\* cursor was not on the first entry
C5_Witness ==
    /\ MatchArm(last) = "enter"
    /\ pc = "draw"
    /\ dirs_state = Some(0)
    /\ files_state = None
    /\ cwd = <<<<"a">>, <<"b">>>>
    /\ files_items # <<>>

\* C6: the creation requested on confirm is the one the prompt was opened
\* for: create_file for a prompt opened with Ctrl+F, create_dir for one
\* opened with Ctrl+N.
C6_CreationMatchesPurpose ==
    request.kind # "none" => request.kind = request.opened

\* C7: when a name is typed character by character into a prompt opened for
\* a file, confirm asks the filesystem for exactly that name, and leaves the
\* overlay None and the buffer empty.
C7_ConfirmCreatesTypedName ==
    (request.kind = "file" /\ request.opened = "file"
       /\ request.typing # "edited")
      => /\ request.typing = "exact"
         /\ OverlayNone
         /\ input = <<>>

\* C8: cancel (q / Esc) under the text-input overlay returns the overlay to
\* None, leaves the buffer empty and creates nothing.
C8_CancelDiscardsBuffer ==
    [][(TextInput /\ Handled("quit"))
          => /\ ~input_active' /\ ~show_popup'
             /\ input' = <<>>
             /\ request' = NoRequest
             /\ UNCHANGED fsVars]_vars

\* the step is a descend whose change of directory fails
DescendFails ==
    /\ Handled("enter")
    /\ IsSome(dirs_state)
    /\ Unwrap(dirs_state) < Len(dirs_items)
    /\ ~CanEnter(fs_dirs, Target(cwd, dirs_items[Unwrap(dirs_state) + 1]))

\* C9: a descend whose change of directory fails leaves the path, the item
\* lists and the cursors as they were, and the loop keeps running.
C9_FailedDescendIsRecovered ==
    [][DescendFails => (UNCHANGED <<cwd, listVars>> /\ pc' = "draw")]_vars

\* C10: confirm with an empty or already existing name creates nothing and
\* leaves the text-input overlay open.
C10_InvalidNameKeepsOverlay ==
    [][(/\ TextInput
        /\ Handled("ctrl_f") \/ Handled("ctrl_n")
        /\ ~CanCreate(input, cwd, fs_files, fs_dirs))
          => /\ UNCHANGED fsVars
             /\ input_active' /\ show_popup']_vars

\* the step is a descend, with no overlay, that the filesystem carries out
Descends ==
    /\ OverlayNone
    /\ Handled("enter")
    /\ IsSome(dirs_state)
    /\ pc' = "draw"

\* C11: a descend on "../" sets the path to the parent of the path (from
\* /a/b to /a); a descend on any other entry d sets it to path/d.
C11_DescendResolvesPath ==
    [][Descends =>
         LET d == dirs_items[Unwrap(dirs_state) + 1]
         IN  cur_dir' = IF d = <<".", ".", "/">>
                        THEN SubSeq(cur_dir, 1, Len(cur_dir) - 1)
                        ELSE cur_dir \o <<d>>]_vars

\* a descend has arrived in /a, which is entered from / and left to from /a/b
C11_Witness ==
    /\ MatchArm(last) = "enter"
    /\ pc = "draw"
    /\ OverlayNone
    /\ cur_dir = <<<<"a">>>>
    /\ dirs_state = Some(0)

\* the step is a descend, under any overlay state, that is carried out
DescendDone == Handled("enter") /\ IsSome(dirs_state) /\ pc' = "draw"

\* C12: after every successful descend both lists hold the listing of the
\* new path and dirs.cursor is Some(0), whatever it was before.
C12_DescendRepopulates ==
    [][DescendDone =>
         /\ files_items' = update_files(fs_files', cur_dir')
         /\ dirs_items' = update_dirs(fs_dirs', cur_dir')
         /\ dirs_state' = Some(0)]_vars

\* a descend from /a into /a/b, selected at index 1 of the list of /a
C12_Witness ==
    /\ MatchArm(last) = "enter"
    /\ pc = "draw"
    /\ Created = 0
    /\ cur_dir = <<<<"a">>, <<"b">>>>
    /\ files_items = << <<"g">> >>
    /\ dirs_items = <<UpEntry>>
    /\ dirs_state = Some(0)

\* C13: when the directory changes while files.cursor is Some(i), the
\* cursor becomes Some(new_len - 1) if i is out of range of the new list and
\* that list is not empty, None if it is empty, and stays Some(i) if i is
\* still in range.
C13_FilesCursorClamped ==
    [][(DescendDone /\ IsSome(files_state)) =>
         LET i == Unwrap(files_state)
             n == Len(files_items')
         IN  files_state' = IF i < n THEN Some(i)
                            ELSE IF n > 0 THEN Some(n - 1) ELSE None]_vars

\* a descend from /a into /a/b, which holds one file, with a file selected
C13_Witness ==
    /\ MatchArm(last) = "enter"
    /\ pc = "draw"
    /\ Created = 0
    /\ cur_dir = <<<<"a">>, <<"b">>>>
    /\ Len(files_items) = 1
    /\ files_state = Some(0)
    /\ dirs_state = Some(0)

\* the cursor after k next operations on a list
RECURSIVE NextTimes(_, _, _)
NextTimes(items, state, k) ==
    IF k = 0 THEN state ELSE NextTimes(items, next(items, state), k - 1)

\* the list a next / previous key event is forwarded to (run_app.rs 40-44)
FocusedItems == IF IsSome(files_state) THEN files_items ELSE dirs_items
FocusedState == IF IsSome(files_state) THEN files_state ELSE dirs_state
FocusedStateAfter == IF IsSome(files_state) THEN files_state' ELSE dirs_state'

\* a list with at least one item and its cursor on one of them
Focused ==
    /\ IsSome(FocusedState)
    /\ Unwrap(FocusedState) < Len(FocusedItems)

\* C14: on a focused list of n >= 1 items a next key event, with no
\* overlay, is one next operation: it moves the cursor from i to i + 1, and
\* from n - 1 to 0; n of them return the cursor to where it started.
C14_NextWrapsAround ==
    /\ [](Focused =>
            NextTimes(FocusedItems, FocusedState, Len(FocusedItems))
              = FocusedState)
    /\ [][(OverlayNone /\ Handled("next") /\ Focused) =>
            /\ FocusedStateAfter = next(FocusedItems, FocusedState)
            /\ FocusedStateAfter =
                 IF Unwrap(FocusedState) = Len(FocusedItems) - 1
                 THEN Some(0) ELSE Some(Unwrap(FocusedState) + 1)]_vars

\* a next key event has taken the cursor of the two directories of /a from
\* the last one back to the first
C14_Witness ==
    /\ MatchArm(last) = "next"
    /\ pc = "draw"
    /\ OverlayNone
    /\ files_state = None
    /\ Len(dirs_items) = 2
    /\ dirs_state = Some(0)

\* C15: on every list and for every cursor, None and an empty list
\* included, next followed by previous restores the cursor; a previous key
\* event is one previous operation, which goes from index 0 to len - 1.
C15_PreviousUndoesNext ==
    /\ [](/\ previous(files_items, next(files_items, files_state))
              = files_state
          /\ previous(dirs_items, next(dirs_items, dirs_state))
              = dirs_state)
    /\ [][(OverlayNone /\ Handled("previous")) =>
            /\ FocusedStateAfter = previous(FocusedItems, FocusedState)
            /\ (Focused /\ Unwrap(FocusedState) = 0)
                 => FocusedStateAfter = Some(Len(FocusedItems) - 1)]_vars

\* a previous key event has taken the cursor of the three files of /a from
\* the first one to the last
C15_Witness ==
    /\ MatchArm(last) = "previous"
    /\ pc = "draw"
    /\ OverlayNone
    /\ dirs_state = None
    /\ Len(files_items) = 3
    /\ files_state = Some(2)

\* C16: a q / Esc key event ends the loop exactly when no overlay is active
\* as it is pressed; pressed with an overlay active it closes the overlay
\* and the loop goes on to the next render.
C16_QuitIffNoOverlay ==
    [][Handled("quit") =>
        /\ (pc' = "done") <=> OverlayNone
        /\ ~OverlayNone => (OverlayNone' /\ pc' = "draw")
        /\ OverlayNone => UNCHANGED <<overlayVars, input_active>>]_vars

\* q / Esc has closed an open prompt and the loop is about to render
C16_Witness ==
    /\ MatchArm(last) = "quit"
    /\ pc = "draw"
    /\ OverlayNone
    /\ purpose = "none"

\* C17: in every reachable state at most one of the overlay indicators
\* show_popup, show_nav, show_fzf, show_bookmark is TRUE.
C17_AtMostOneOverlay ==
    Cardinality({i \in 1..4 : overlayVars[i]}) <= 1

\* a key event has opened the prompt: exactly one overlay is active
C17_Witness ==
    /\ MatchArm(last) = "ctrl_n"
    /\ pc = "draw"
    /\ show_popup
    /\ Cardinality({i \in 1..4 : overlayVars[i]}) = 1

\* C18: a call to render leaves the path, the items and the cursor of both
\* lists, the overlay state and the text buffer as they were before the call.
C18_RenderIsProjection ==
    [][pc = "draw" =>
        UNCHANGED <<cur_dir, files_items, files_state, dirs_items, dirs_state,
                    overlayVars, input_active, input>>]_vars

\* a frame has been rendered in /a/b with the dirs list focused, the prompt
\* open and text in the buffer
C18_Witness ==
    /\ pc = "poll"
    /\ cwd = <<<<"a">>, <<"b">>>>
    /\ cur_dir = get_pwd(cwd)
    /\ dirs_state = Some(0)
    /\ show_popup
    /\ input = <<"f">>

\* render_contents fails to open the file the files cursor is on
PreviewFails ==
    /\ pc = "draw"
    /\ SelectedFile # <<>>
    /\ Append(cwd, SelectedFile) \in Unreadable

\* C19: when the selected file cannot be opened or read for the preview
\* pane, the loop does not end: the state stays as it was and the loop goes
\* on to read the next key event.
C19_PreviewFailureIsSurvived ==
    [][PreviewFails =>
        /\ pc' = "poll"
        /\ UNCHANGED <<cwd, fsVars, listVars, overlayVars, input,
                       input_active>>]_vars

\* the step dispatches a key event
Dispatch == last' # NoKey

\* C20: the loop renders before it reads the first key event; a key event
\* is dispatched only from the polling position, which is entered only by
\* a render, and a dispatch never leads back to the polling position: no
\* two key events are dispatched without a render between them.
C20_RenderAndDispatchAlternate ==
    /\ pc = "draw"
    /\ [][/\ Dispatch => (pc = "poll" /\ pc' # "poll")
          /\ pc' = "poll" => (pc = "draw" /\ ~Dispatch)]_vars

\* a third key event has been dispatched, each of them after a render
C20_Witness ==
    /\ pc = "draw"
    /\ MatchArm(last) = "char"
    /\ input = <<"f", "f">>

\* C21: with no overlay, a next or previous key event changes nothing but
\* the cursor of the list that has focus: the cursor of the other list, the
\* items of both lists and the path stay as they are, and with neither list
\* focused the event changes nothing.
C21_NavigationMovesFocusedCursorOnly ==
    [][(OverlayNone /\ (Handled("next") \/ Handled("previous"))) =>
        /\ UNCHANGED <<cwd, fsVars, cur_dir, files_items, dirs_items,
                       overlayVars, input, input_active>>
        /\ IsSome(files_state) => UNCHANGED dirs_state
        /\ ~IsSome(files_state) => UNCHANGED files_state
        /\ (~IsSome(files_state) /\ ~IsSome(dirs_state))
             => UNCHANGED dirs_state]_vars

\* a next key event has moved the files cursor of /a from the first file to
\* the second, with the dirs list out of focus
C21_Witness ==
    /\ MatchArm(last) = "next"
    /\ pc = "draw"
    /\ OverlayNone
    /\ cwd = <<<<"a">>>>
    /\ files_state = Some(1)
    /\ dirs_state = None

\* C22: in every reachable state the flag that routes typed characters to
\* the buffer, input_active, equals the flag that draws the prompt,
\* show_popup.
C22_PromptFlagsInStep ==
    input_active = show_popup

\* Ctrl+F has opened the prompt: it is drawn and it captures characters
C22_Witness ==
    /\ MatchArm(last) = "ctrl_f"
    /\ pc = "draw"
    /\ input_active
    /\ show_popup

\* C23: the text buffer changes only while the text-input overlay is
\* active. With no overlay, no key event modifies the buffer, and opening a
\* prompt with Ctrl+F or Ctrl+N neither modifies the buffer nor asks for a
\* file or a directory to be created.
C23_BufferChangesOnlyUnderOverlay ==
    [][/\ input' # input => TextInput
       /\ (OverlayNone /\ Dispatch) =>
            /\ UNCHANGED <<input, fsVars>>
            /\ request' = NoRequest
       /\ (OverlayNone /\ (Handled("ctrl_f") \/ Handled("ctrl_n"))) =>
            TextInput']_vars

\* a character key has been pressed with no overlay, the buffer still
\* holding the text of a cancelled prompt
C23_Witness ==
    /\ MatchArm(last) = "char"
    /\ pc = "draw"
    /\ OverlayNone
    /\ input = <<"f">>

\* the loop is running: it is about to render or to read a key event
Running == pc \in {"draw", "poll"}

\* C24: from every reachable state two consecutive q / Esc key events end
\* the loop with a successful result. The first one ends it when no overlay
\* is active and closes the overlay otherwise; the render that follows a
\* closed overlay brings the loop back to reading keys with no overlay, where
\* the second one ends it; and the loop never ends in any other way, so it
\* can always be left by key presses.
C24_TwoQuitsEndLoop ==
    [][/\ (Handled("quit") /\ OverlayNone) => pc' = "done"
       /\ (Handled("quit") /\ ~OverlayNone) => (OverlayNone' /\ pc' = "draw")
       /\ (pc = "draw" /\ MatchArm(last) = "quit") =>
            (pc' = "poll" /\ OverlayNone')
       /\ Running => pc' \in {"draw", "poll", "done"}]_vars

====
